---- MODULE Spec2Model ----
(***************************************************************************)
(* CashLogWLPadvanced (src/advancedModel.py): the mixed-integer model of   *)
(* the CashLog warehouse location problem, the call of the MIP solver and  *)
(* the extraction of the result records.                                   *)
(*                                                                         *)
(* One behaviour is one object: Init is the state after __init__ (the      *)
(* three tables and the tier catalog), and solve() runs as a sequence of   *)
(* steps, one per statement group of the method.  An exception leaves the  *)
(* method: pc = "raised".                                                  *)
(*                                                                         *)
(* Money is counted in hundredths of the currency unit, so that the        *)
(* two-decimal var_fix rates are integers (Scale).                         *)
(***************************************************************************)
EXTENDS Integers, Sequences, FiniteSets, TLC

VARIABLES
    W, R, S,                \* self.W, self.R, self.S
    sumDeliveries,          \* self.regions.loc[r].sumDeliveries
    transportationCosts,    \* self.shifts.loc[w,r].transportationCosts
    fixCostFunctions,       \* self.fixCostFunctions
    n_warehouses, force_open, fixCostFunction,   \* the arguments of solve()
    pc, err,                \* position in solve(), exception raised
    x, y, z,                \* the LpVariable dicts, each variable's varValue
    prob,                   \* the LpProblem: objective and constraints
    status,                 \* what prob.solve returned
    feasible,               \* the feasible set of prob, as the solver saw it
    totalCosts, variableCosts, cash_center_fixed, cash_center_var,
    region_results, warehouse_results

vars == <<W, R, S, sumDeliveries, transportationCosts, fixCostFunctions,
          n_warehouses, force_open, fixCostFunction, pc, err, x, y, z, prob,
          status, feasible, totalCosts, variableCosts, cash_center_fixed,
          cash_center_var, region_results, warehouse_results>>

data == <<W, R, S, sumDeliveries, transportationCosts, fixCostFunctions>>
args == <<n_warehouses, force_open, fixCostFunction>>
lpvars == <<x, y, z>>
solved == <<status, feasible>>
results == <<totalCosts, variableCosts, cash_center_fixed, cash_center_var,
             region_results, warehouse_results>>

----------------------------------------------------------------------------
(* Bounds of the model *)

MaxW == 2       \* at most this many warehouses
MaxR == 2       \* at most this many regions

(* Values of the tables.  Two regions of 9674 deliveries total 19348, the  *)
(* upper bound of the first tier; 19349 is the lower bound of the second.  *)
(* The regions are listed by falling sumDeliveries.                        *)
Demand == {0, 9674, 19349}
DemandTables(Rs) ==
    {d \in [Rs -> Demand] : \A q \in Rs, r \in Rs : q < r => d[q] >= d[r]}

(* transportationCosts of a shift, by pattern: "near" gives the shifts     *)
(* distinct costs far below the cost of a warehouse, "local" makes the     *)
(* warehouse of the same number free and every other one dearer than       *)
(* opening a warehouse.                                                    *)
Patterns == {"near", "local"}
ShiftCost(t, w, r) ==
    IF t = "near" THEN 1000 + 100 * w + 10 * r
    ELSE IF w = r THEN 0 ELSE 100000

----------------------------------------------------------------------------
(* Program constants *)

Scale == 100            \* hundredths: var_fix has two decimals
None == -1              \* varValue of a variable not solved yet; a field not set
ZLowBound == 0          \* lowBound of z
ZUpBound == 9999999     \* upBound of z
NoTarget == -1          \* n_warehouses: no target count

Tier(lb, ub, ff, vf) ==
    [lower_bound |-> lb, upper_bound |-> ub, fix_fix |-> ff, var_fix |-> vf]

(* Family 2 with a hole between its first two tiers. *)
Family2Gap ==
    << Tier(0, 19348, 61165, 520),
       Tier(19350, 45415, 86071, 391),
       Tier(45416, 107327, 228337, 78),
       Tier(107328, 199999, 145100, 155),
       Tier(200000, 99999999, 145100, 155) >>

Family1 ==
    << Tier(0, 19348, 61165, 414),
       Tier(19349, 45415, 86071, 285),
       Tier(45416, 107327, 145100, 155),
       Tier(107328, 199999, 145100, 155),
       Tier(200000, 99999999, 145100, 155) >>

Family2 ==
    << Tier(0, 19348, 61165, 520),
       Tier(19349, 45415, 86071, 391),
       Tier(45416, 107327, 228337, 78),
       Tier(107328, 199999, 145100, 155),
       Tier(200000, 99999999, 145100, 155) >>

Family3 ==
    << Tier(0, 19348, 61165, 850),
       Tier(19349, 45415, 154384, 368),
       Tier(45416, 107327, 290789, 68),
       Tier(107328, 199999, 197059, 155),
       Tier(200000, 99999999, 197059, 155) >>

Catalog == (1 :> Family1) @@ (2 :> Family2) @@ (3 :> Family3)

----------------------------------------------------------------------------
(* Helpers *)

RECURSIVE SumOver(_, _)
SumOver(D, f) ==
    IF D = {} THEN 0
    ELSE LET d == CHOOSE e \in D : TRUE IN f[d] + SumOver(D \ {d}, f)

(* All functions f on D with f[d] \in cells[d]. *)
RECURSIVE DepProd(_, _)
DepProd(D, cells) ==
    IF D = {} THEN {<<>>}
    ELSE LET d == CHOOSE e \in D : TRUE
         IN  {(d :> v) @@ f : v \in cells[d], f \in DepProd(D \ {d}, cells)}

(* f with every value computed once; T with every element computed once. *)
Table(f) == f @@ <<>>
Listed(T) == {e : e \in T}

Before(a, b) == a[1] < b[1] \/ (a[1] = b[1] /\ a[2] < b[2])

(* The pairs of a shift table in the order of its rows. *)
RECURSIVE PairSeq(_)
PairSeq(P) ==
    IF P = {} THEN <<>>
    ELSE LET p == CHOOSE q \in P : \A o \in P \ {q} : Before(q, o)
         IN  <<p>> \o PairSeq(P \ {p})

RECURSIVE IdSeq(_)
IdSeq(D) ==
    IF D = {} THEN <<>>
    ELSE LET d == CHOOSE e \in D : \A o \in D : e <= o
         IN  <<d>> \o IdSeq(D \ {d})

cFix == fixCostFunctions[fixCostFunction]
C == 0 .. (Len(cFix) - 1)
tier(c) == cFix[c + 1]

(* lpSum([v[c] for c in self.C]) *)
RECURSIVE SumFrom(_, _)
SumFrom(v, c) == IF c \in DOMAIN v THEN v[c] + SumFrom(v, c + 1) ELSE 0
SumTiers(v) == SumFrom(v, 0)

----------------------------------------------------------------------------
(* The LpProblem.  A constraint is kept as the statement that added it     *)
(* (kind) with the indices it was generated for; Holds gives the linear    *)
(* (in)equality the statement wrote.                                       *)

Con(kind, w, r, c, sense, n) ==
    [kind |-> kind, w |-> w, r |-> r, c |-> c, sense |-> sense, n |-> n]

(* The constraints as a slip of the pen would write them. *)
AssignAtMost(r)  == Con("assign", 0, r, 0, "<=", 1)
LinkReversed(w, r) == Con("link", w, r, 0, ">=", 0)
FlowAtMost(w)    == Con("flow", w, 0, 0, "<=", 0)
CountAtMost(n)   == Con("count", 0, 0, 0, "<=", n)

Assign(r)       == Con("assign", 0, r, 0, "==", 1)      \* line 51
Link(w, r)      == Con("link", w, r, 0, "<=", 0)        \* line 54
OneTier(w)      == Con("onetier", w, 0, 0, "<=", 1)     \* line 57
TierUpper(w, c) == Con("ub", w, 0, c, "<=", 0)          \* line 61
TierLower(w, c) == Con("lb", w, 0, c, ">=", 0)          \* line 62
Flow(w)         == Con("flow", w, 0, 0, "==", 0)        \* line 65
Force(w)        == Con("force", w, 0, 0, "==", 1)       \* line 68
Count(n)        == Con("count", 0, 0, 0, "==", n)       \* line 71

(* The left and the right side of constraint k at the values xv, yv, zv. *)
Lhs(k, xv, yv, zv) ==
    CASE k.kind = "assign"  -> SumOver(W, [w \in W |-> xv[<<w, k.r>>]])
      [] k.kind = "link"    -> xv[<<k.w, k.r>>]
      [] k.kind = "onetier" -> SumTiers(yv[k.w])
      [] k.kind = "ub"      -> zv[k.w][k.c]
      [] k.kind = "lb"      -> zv[k.w][k.c]
      [] k.kind = "flow"    -> SumTiers(zv[k.w])
      [] k.kind = "force"   -> SumTiers(yv[k.w])
      [] k.kind = "count"   -> SumOver(W, [w \in W |-> SumTiers(yv[w])])

Rhs(k, xv, yv, zv) ==
    CASE k.kind = "link" -> SumTiers(yv[k.w])
      [] k.kind = "ub"   -> tier(k.c).upper_bound * yv[k.w][k.c]
      [] k.kind = "lb"   -> tier(k.c).lower_bound * yv[k.w][k.c]
      [] k.kind = "flow" ->
            SumOver(R, [r \in R |-> xv[<<k.w, r>>] * sumDeliveries[r]])
      [] OTHER -> k.n

(* Whether the values xv, yv, zv satisfy constraint k. *)
Holds(k, xv, yv, zv) ==
    LET l == Lhs(k, xv, yv, zv)
        r == Rhs(k, xv, yv, zv)
    IN  CASE k.sense = "<=" -> l <= r
          [] k.sense = ">=" -> l >= r
          [] k.sense = "==" -> l = r

LpMaximize == "Maximize"

(* LpMinimize, line 40 *)
LpSense == "Minimize"

(* The objective of line 48 as its coefficients (lines 45-46). *)
Objective ==
    [z |-> [w \in W |-> [c \in C |-> tier(c).var_fix]],
     y |-> [w \in W |-> [c \in C |-> tier(c).fix_fix]],
     x |-> [s \in S |-> transportationCosts[s]]]

NoObjective == [z |-> <<>>, y |-> <<>>, x |-> <<>>]

NewProblem == [sense |-> LpSense, objective |-> NoObjective, constraints |-> {}]

(* The three sums of the objective at given values, in hundredths. *)
FlowCost(o, zv) ==
    SumOver(DOMAIN o.z,
            [w \in DOMAIN o.z |->
                SumOver(DOMAIN o.z[w],
                        [c \in DOMAIN o.z[w] |-> zv[w][c] * o.z[w][c]])])
TierCost(o, yv) ==
    Scale * SumOver(DOMAIN o.y,
            [w \in DOMAIN o.y |->
                SumOver(DOMAIN o.y[w],
                        [c \in DOMAIN o.y[w] |-> yv[w][c] * o.y[w][c]])])
ShiftCosts(o, xv) ==
    Scale * SumOver(DOMAIN o.x, [s \in DOMAIN o.x |-> xv[s] * o.x[s]])

ObjectiveValue(o, p) == FlowCost(o, p.z) + TierCost(o, p.y) + ShiftCosts(o, p.x)

----------------------------------------------------------------------------
(* The Solver Engine.  A MIP solver returns an optimal point of the        *)
(* feasible set, or reports that the set is empty.  The feasible set is    *)
(* enumerated by scope: the constraints on one region's x, those on one    *)
(* warehouse's y and z, those that tie a warehouse's x to its y and z, and *)
(* then the rest.  z is continuous: its values are taken from ZGrid, the   *)
(* totals of deliveries a warehouse can be assigned.                       *)

Binary == {0, 1}

ZGrid == {SumOver(T, sumDeliveries) : T \in SUBSET R}

Staged == {"assign", "link", "onetier", "ub", "lb", "flow", "force"}

(* The values of x[.,r] that the constraints on them alone allow. *)
XCols(cs, r) ==
    LET own == {k \in cs : k.kind = "assign" /\ k.r = r}
    IN  Listed({col \in [{s \in DOMAIN x : s[2] = r} -> Binary] :
                    \A k \in own : Holds(k, col, <<>>, <<>>)})

RECURSIVE XCands(_, _)
XCands(cs, Rs) ==
    IF Rs = {} THEN {<<>>}
    ELSE LET r == CHOOSE q \in Rs : TRUE
         IN  {col @@ f : col \in XCols(cs, r), f \in XCands(cs, Rs \ {r})}

(* The values of z[w][c] that its bounds and the constraints ks on it      *)
(* alone allow when y[w][c] = b. *)
ZCell(ks, grid, w, c, b) ==
    LET mine == {k \in ks : k.kind \in {"ub", "lb"} /\ k.c = c}
    IN  {v \in grid :
            /\ ZLowBound <= v /\ v <= ZUpBound
            /\ \A k \in mine : Holds(k, <<>>, w :> (c :> b), w :> (c :> v))}

(* The rows <<y[w], z[w]>> that satisfy the constraints on them alone. *)
RowCands(ks, grid, w) ==
    LET own == {k \in ks : k.kind \in {"onetier", "force"}}
        yrs == Listed({yr \in [DOMAIN y[w] -> Binary] :
                    \A k \in own : Holds(k, <<>>, w :> yr, <<>>)})
        cells == Table([c \in DOMAIN z[w] |->
                    Table([b \in Binary |-> ZCell(ks, grid, w, c, b)])])
    IN  Listed(UNION {{<<yr, zr>> :
                    zr \in DepProd(DOMAIN z[w],
                                   [c \in DOMAIN z[w] |-> cells[c][yr[c]]])} :
               yr \in yrs})

(* For every value xw of x[w,.], the rows of w that go with it. *)
RowsFor(ks, grid, w) ==
    LET rows == RowCands(ks, grid, w)
        links == {k \in ks : k.kind = "link"}
        flows == {k \in ks : k.kind = "flow"}
    IN  Table([xw \in [{s \in DOMAIN x : s[1] = w} -> Binary] |->
                 Listed({row \in rows :
                     /\ \A k \in links :
                           Holds(k, xw, w :> row[1], w :> row[2])
                     /\ \A k \in flows :
                           Holds(k, xw, w :> row[1], w :> row[2])})])

FeasiblePoints(cs) ==
    LET grid == ZGrid
        keys == Table([w \in DOMAIN y |-> {s \in DOMAIN x : s[1] = w}])
        fit == Table([w \in DOMAIN y |->
                        RowsFor({k \in cs : k.w = w}, grid, w)])
        rest == {k \in cs : k.kind \notin Staged}
        points == UNION {{[x |-> xv,
                           y |-> [w \in DOMAIN y |-> f[w][1]],
                           z |-> [w \in DOMAIN y |-> f[w][2]]] :
                              f \in DepProd(DOMAIN y,
                                      [w \in DOMAIN y |->
                                          fit[w][[s \in keys[w] |-> xv[s]]]])} :
                         xv \in XCands({k \in cs : k.kind = "assign"}, R)}
    IN  Listed({p \in points : \A k \in rest : Holds(k, p.x, p.y, p.z)})

OptimalPoints(o, sense, F) ==
    LET val == Table([p \in F |-> ObjectiveValue(o, p)])
    IN  IF sense = "Minimize"
        THEN {p \in F : \A q \in F : val[p] <= val[q]}
        ELSE {p \in F : \A q \in F : val[p] >= val[q]}

(* The values the variables are left with when no optimum was found: the   *)
(* interface promises nothing about them.                                  *)
LeftoverPoints ==
    {[x |-> [s \in DOMAIN x |-> b],
      y |-> [w \in DOMAIN y |-> [c \in DOMAIN y[w] |-> 0]],
      z |-> [w \in DOMAIN z |-> [c \in DOMAIN z[w] |-> 0]]] : b \in Binary}

----------------------------------------------------------------------------
(* __init__ : lines 8-34 *)

ShiftTables(Ws, Rs) ==
    {Ws \X Rs} \cup {(Ws \X Rs) \ {p} : p \in Ws \X Rs}

Init ==
    /\ \E nW \in 0 .. MaxW, nR \in 0 .. MaxR :
          /\ W = 1 .. nW
          /\ R = 1 .. nR
          /\ S \in ShiftTables(1 .. nW, 1 .. nR)
    /\ sumDeliveries \in DemandTables(R)
    /\ \E t \in Patterns :
          transportationCosts = [s \in S |-> ShiftCost(t, s[1], s[2])]
    /\ fixCostFunctions = Catalog
    /\ n_warehouses = NoTarget
    /\ force_open = {}
    /\ fixCostFunction = 1
    /\ pc = "idle"
    /\ err = "none"
    /\ x = <<>> /\ y = <<>> /\ z = <<>>
    /\ prob = NewProblem
    /\ status = "NotSolved"
    /\ feasible = {}
    /\ totalCosts = None /\ variableCosts = None
    /\ cash_center_fixed = None /\ cash_center_var = None
    /\ region_results = <<>> /\ warehouse_results = <<>>

----------------------------------------------------------------------------
(* solve : lines 36-105 *)

TargetChoices == (-2) .. MaxW
ForceChoices == {{}, {1}, {MaxW + 1}}

Raise(e) ==
    /\ pc' = "raised"
    /\ err' = e

Goto(l) ==
    /\ pc' = l
    /\ err' = err

AddConstraints(cs) ==
    prob' = [prob EXCEPT !.constraints = @ \cup cs]

(* lines 36-38: the call, cFix and self.C *)
Call ==
    /\ pc = "idle"
    /\ n_warehouses' \in TargetChoices
    /\ force_open' \in ForceChoices
    /\ fixCostFunction' \in DOMAIN fixCostFunctions
    /\ Goto("create")
    /\ UNCHANGED <<data, lpvars, prob, solved, results>>

(* lines 40-43 *)
CreateVariables ==
    /\ pc = "create"
    /\ prob' = NewProblem
    /\ x' = [s \in S |-> None]
    /\ y' = [w \in W |-> [c \in C |-> None]]
    /\ z' = [w \in W |-> [c \in C |-> None]]
    /\ Goto("objective")
    /\ UNCHANGED <<data, args, solved, results>>

(* lines 45-48 *)
SetObjective ==
    /\ pc = "objective"
    /\ prob' = [prob EXCEPT !.objective = Objective]
    /\ Goto("assign")
    /\ UNCHANGED <<data, args, lpvars, solved, results>>

(* The regions whose row of x lacks a warehouse: x[w,r] raises KeyError. *)
MissingRegions == {r \in R : \E w \in W : <<w, r>> \notin DOMAIN x}

(* lines 50-51 *)
AddAssignment ==
    /\ pc = "assign"
    /\ IF MissingRegions = {}
       THEN /\ AddConstraints({Assign(r) : r \in R})
            /\ Goto("link")
       ELSE /\ AddConstraints({Assign(r) : r \in {q \in R :
                                  \A m \in MissingRegions : q < m}})
            /\ Raise("KeyError")
    /\ UNCHANGED <<data, args, lpvars, solved, results>>

(* lines 53-54 *)
AddLink ==
    /\ pc = "link"
    /\ AddConstraints({Link(s[1], s[2]) : s \in S})
    /\ Goto("onetier")
    /\ UNCHANGED <<data, args, lpvars, solved, results>>

(* lines 56-57 *)
AddOneTier ==
    /\ pc = "onetier"
    /\ AddConstraints({OneTier(w) : w \in W})
    /\ Goto("tierbounds")
    /\ UNCHANGED <<data, args, lpvars, solved, results>>

(* lines 59-62 *)
AddTierBounds ==
    /\ pc = "tierbounds"
    /\ AddConstraints({TierUpper(w, c) : w \in W, c \in C}
                        \cup {TierLower(w, c) : w \in W, c \in C})
    /\ Goto("flow")
    /\ UNCHANGED <<data, args, lpvars, solved, results>>

(* lines 64-65 *)
AddFlowBalance ==
    /\ pc = "flow"
    /\ IF \A w \in W, r \in R : <<w, r>> \in DOMAIN x
       THEN /\ AddConstraints({Flow(w) : w \in W})
            /\ Goto("force")
       ELSE /\ UNCHANGED prob
            /\ Raise("KeyError")
    /\ UNCHANGED <<data, args, lpvars, solved, results>>

(* lines 67-68: y[w] raises KeyError for a w that is no warehouse *)
AddForceOpen ==
    /\ pc = "force"
    /\ IF force_open \subseteq DOMAIN y
       THEN /\ AddConstraints({Force(w) : w \in force_open})
            /\ Goto("count")
       ELSE /\ AddConstraints({Force(w) : w \in {v \in force_open :
                                  \A u \in force_open \ DOMAIN y : v < u}})
            /\ Raise("KeyError")
    /\ UNCHANGED <<data, args, lpvars, solved, results>>

(* lines 70-71 *)
AddTargetCount ==
    /\ pc = "count"
    /\ IF n_warehouses # NoTarget
       THEN AddConstraints({Count(n_warehouses)})
       ELSE UNCHANGED prob
    /\ Goto("solve")
    /\ UNCHANGED <<data, args, lpvars, solved, results>>

(* line 74 *)
CallSolver ==
    /\ pc = "solve"
    /\ LET F == FeasiblePoints(prob.constraints)
       IN  \E p \in (IF F = {} THEN LeftoverPoints
                    ELSE OptimalPoints(prob.objective, prob.sense, F)) :
              /\ feasible' = F
              /\ status' = IF F = {} THEN "Infeasible" ELSE "Optimal"
              /\ x' = p.x
              /\ y' = p.y
              /\ z' = p.z
    /\ Goto("totals")
    /\ UNCHANGED <<data, args, prob, results>>

(* lines 77-80 *)
ExtractTotals ==
    /\ pc = "totals"
    /\ totalCosts' = ObjectiveValue(prob.objective, [x |-> x, y |-> y, z |-> z])
    /\ variableCosts' =
          Scale * SumOver(S, [s \in S |-> x[s] * transportationCosts[s]])
    /\ cash_center_fixed' =
          Scale * SumOver(W, [w \in W |->
                     SumOver(C, [c \in C |-> y[w][c] * tier(c).fix_fix])])
    /\ cash_center_var' =
          SumOver(W, [w \in W |->
                     SumOver(C, [c \in C |-> z[w][c] * tier(c).var_fix])])
    /\ Goto("regions")
    /\ UNCHANGED <<data, args, lpvars, prob, solved,
                   region_results, warehouse_results>>

(* line 87: v >= 0.1 *)
Serviced(s) == 10 * x[s] >= 1

(* lines 83-94 *)
ExtractRegions ==
    /\ pc = "regions"
    /\ LET sel == SelectSeq(PairSeq(S), Serviced)
       IN  region_results' =
              [i \in 1 .. Len(sel) |->
                  [regionID |-> sel[i][2],
                   warehouseID |-> sel[i][1],
                   serviced |-> x[sel[i]]]]
    /\ Goto("warehouses")
    /\ UNCHANGED <<data, args, lpvars, prob, solved, totalCosts, variableCosts,
                   cash_center_fixed, cash_center_var, warehouse_results>>

(* lines 96-105 *)
ExtractWarehouses ==
    /\ pc = "warehouses"
    /\ LET ws == IdSeq(W)
       IN  warehouse_results' =
              [i \in 1 .. Len(ws) |->
                  [warehouseID |-> ws[i],
                   open |-> SumOver(C, y[ws[i]])]]
    /\ Goto("done")
    /\ UNCHANGED <<data, args, lpvars, prob, solved, totalCosts, variableCosts,
                   cash_center_fixed, cash_center_var, region_results>>

Next ==
    \/ Call
    \/ CreateVariables
    \/ SetObjective
    \/ AddAssignment
    \/ AddLink
    \/ AddOneTier
    \/ AddTierBounds
    \/ AddFlowBalance
    \/ AddForceOpen
    \/ AddTargetCount
    \/ CallSolver
    \/ ExtractTotals
    \/ ExtractRegions
    \/ ExtractWarehouses

Spec == Init /\ [][Next]_vars

----------------------------------------------------------------------------
(* Properties *)

Built == pc \in {"totals", "regions", "warehouses", "done"}

Servers(xv, r) == {w \in W : xv[<<w, r>>] = 1}
OpenTiers(yv, w) == {c \in C : yv[w][c] = 1}
Throughput(xv, w) ==
    SumOver({r \in R : <<w, r>> \in S /\ xv[<<w, r>>] = 1}, sumDeliveries)
InTier(v, t) == t.lower_bound <= v /\ v <= t.upper_bound

ValidKnobs ==
    /\ n_warehouses = NoTarget \/ n_warehouses \in 0 .. Cardinality(W)
    /\ force_open \subseteq W

(* C1: in every feasible solution of the model handed to the solver, and   *)
(* in the solution an Optimal solve returns, every region is served by     *)
(* exactly one warehouse: the x[w,r] of region r sum to 1 over W.          *)
C1_SingleSourcing ==
    /\ pc = "totals" =>
          \A p \in feasible : \A r \in R :
              /\ SumOver(W, [w \in W |-> p.x[<<w, r>>]]) = 1
              /\ Cardinality(Servers(p.x, r)) = 1
    /\ (Built /\ status = "Optimal") =>
          \A r \in R : SumOver(W, [w \in W |-> x[<<w, r>>]]) = 1

C1_Witness ==
    /\ pc = "totals" /\ status = "Optimal"
    /\ Cardinality(W) >= 2 /\ Cardinality(R) >= 2
    /\ \E p \in feasible, q \in feasible : p.x # q.x

(* C2 (as claimed): with S a subset of W x R and valid knobs solve() never *)
(* raises before the solver call; x has a variable for the pairs of S and  *)
(* no others, and no constraint refers to a pair outside S.                *)
C2_BuildNeverFails ==
    /\ (S \subseteq W \X R /\ ValidKnobs) => pc # "raised"
    /\ pc \notin {"idle", "create"} => DOMAIN x = S
    /\ \A k \in prob.constraints :
          /\ k.kind = "assign" => \A w \in W : <<w, k.r>> \in S
          /\ k.kind = "link" => <<k.w, k.r>> \in S

(* C3: in every feasible solution a region is assigned only to a warehouse *)
(* with a tier selected, and after an Optimal solve every record of        *)
(* region_results names a warehouse whose warehouse_results record has     *)
(* open = 1.                                                               *)
C3_NoServiceFromClosed ==
    /\ pc = "totals" =>
          \A p \in feasible : \A s \in S :
              p.x[s] = 1 => SumOver(C, p.y[s[1]]) = 1
    /\ (pc = "done" /\ status = "Optimal") =>
          \A i \in DOMAIN region_results :
              \E j \in DOMAIN warehouse_results :
                  /\ warehouse_results[j].warehouseID
                        = region_results[i].warehouseID
                  /\ warehouse_results[j].open = 1

C3_Witness ==
    /\ pc = "done" /\ status = "Optimal"
    /\ Len(region_results) >= 2
    /\ \E j \in DOMAIN warehouse_results : warehouse_results[j].open = 0
    /\ \E j \in DOMAIN warehouse_results : warehouse_results[j].open = 1

(* C4 (as claimed): in every feasible solution z[w][c] is 0 where          *)
(* y[w][c] = 0 and inside tier c's interval where y[w][c] = 1, and with    *)
(* y[w][c] = 1 the bounds of z and the tier constraints let z[w][c] take   *)
(* both ends of tier c's interval, the last tier's upper_bound included.   *)
C4_TierFlowRange ==
    pc = "totals" =>
        /\ \A p \in feasible : \A w \in W, c \in C :
              /\ p.y[w][c] = 0 => p.z[w][c] = 0
              /\ p.y[w][c] = 1 => InTier(p.z[w][c], tier(c))
        /\ \A w \in W, c \in C :
              \A v \in {tier(c).lower_bound, tier(c).upper_bound} :
                  v \in ZCell({k \in prob.constraints : k.w = w}, {v}, w, c, 1)

(* C5: in every feasible solution the flows of a warehouse sum to the      *)
(* deliveries of the regions assigned to it; a warehouse open at tier c    *)
(* carries a total inside tier c's interval, a closed one carries none.    *)
C5_FlowBalance ==
    pc = "totals" =>
        \A p \in feasible : \A w \in W :
            /\ SumOver(C, p.z[w]) = Throughput(p.x, w)
            /\ \A c \in OpenTiers(p.y, w) : InTier(Throughput(p.x, w), tier(c))
            /\ OpenTiers(p.y, w) = {} => Throughput(p.x, w) = 0

C5_Witness ==
    /\ pc = "totals"
    /\ \E p \in feasible : \E w \in W, v \in W :
          /\ Cardinality({r \in R : p.x[<<w, r>>] = 1}) >= 2
          /\ Throughput(p.x, w) > tier(0).upper_bound
          /\ OpenTiers(p.y, v) = {}

OpenRecords == {j \in DOMAIN warehouse_results : warehouse_results[j].open = 1}

(* C6: with a target count given, an Optimal solve reports exactly that    *)
(* many warehouses with open = 1 and the others with open = 0; with a      *)
(* target of 1 every region has a record and every record names the one    *)
(* open warehouse.                                                         *)
C6_TargetCount ==
    (pc = "done" /\ status = "Optimal" /\ n_warehouses # NoTarget) =>
        /\ Cardinality(OpenRecords) = n_warehouses
        /\ \A j \in DOMAIN warehouse_results \ OpenRecords :
              warehouse_results[j].open = 0
        /\ n_warehouses = 1 =>
              /\ \A r \in R : \E i \in DOMAIN region_results :
                    region_results[i].regionID = r
              /\ \A i \in DOMAIN region_results : \A j \in OpenRecords :
                    region_results[i].warehouseID
                        = warehouse_results[j].warehouseID

C6_Witness ==
    /\ pc = "done" /\ status = "Optimal" /\ n_warehouses = 1
    /\ Cardinality(W) = MaxW /\ Cardinality(R) >= 2
    /\ Len(region_results) = Cardinality(R)

InvalidKnobs ==
    \/ n_warehouses # NoTarget /\ n_warehouses \notin 0 .. Cardinality(W)
    \/ ~(force_open \subseteq W)

(* C7 (as claimed): with a target count out of range or an unknown         *)
(* warehouse in force_open, solve() adds no constraint to the model and    *)
(* never calls the solver.                                                 *)
C7_InvalidKnobRejected ==
    (pc # "idle" /\ InvalidKnobs) =>
        /\ prob.constraints = {}
        /\ status = "NotSolved"

(* C8 (as claimed): when the solver returns a status other than Optimal,   *)
(* no cost total and no result list is produced from that solve.           *)
C8_ExtractionGuarded ==
    status \notin {"NotSolved", "Optimal"} =>
        /\ pc \in {"totals", "raised"}
        /\ totalCosts = None /\ variableCosts = None
        /\ cash_center_fixed = None /\ cash_center_var = None

(* The optimal objective value of the model with target count k in place   *)
(* of the one given (NoTarget: none); None when that model is infeasible.  *)
OptimumWith(k) ==
    LET cs == (prob.constraints \ {Count(n_warehouses)})
                 \cup (IF k = NoTarget THEN {} ELSE {Count(k)})
        F == FeasiblePoints(cs)
    IN  IF F = {} THEN None
        ELSE ObjectiveValue(prob.objective,
                 CHOOSE p \in OptimalPoints(prob.objective, prob.sense, F) : TRUE)

(* C9 (as claimed): the optimum with target k1 is at least the optimum     *)
(* with any larger feasible target k2.                                     *)
C9_MonotoneInTarget ==
    (pc = "done" /\ status = "Optimal" /\ n_warehouses # NoTarget) =>
        \A k \in TargetChoices :
            (k > n_warehouses /\ OptimumWith(k) # None)
                => totalCosts >= OptimumWith(k)

(* C9 (amended): the optimum with a target count is at least the optimum   *)
(* of the same model without one.                                          *)
C9_TargetNeverCheaper ==
    (pc = "done" /\ status = "Optimal" /\ n_warehouses # NoTarget) =>
        /\ OptimumWith(NoTarget) # None
        /\ totalCosts >= OptimumWith(NoTarget)

C9_Witness ==
    /\ pc = "done" /\ status = "Optimal" /\ n_warehouses = 2
    /\ \E w \in W : OpenTiers(y, w) # {} /\ Throughput(x, w) = 0
    /\ \E w \in W : Throughput(x, w) > 0

(* C10 (as claimed): in every family the first tier starts at 0 and each   *)
(* tier starts where the one before it ends.                               *)
C10_SharedBoundaries ==
    \A f \in DOMAIN fixCostFunctions :
        LET t == fixCostFunctions[f]
        IN  /\ t[1].lower_bound = 0
            /\ \A i \in 2 .. Len(t) : t[i].lower_bound = t[i - 1].upper_bound

(* C10 (amended): the families are 1, 2 and 3; in each the first tier      *)
(* starts at 0, no tier is empty, each tier starts one above the end of    *)
(* the one before it, and the last ends at the bound of the last tier of   *)
(* family 1; so every whole total of deliveries a warehouse can be         *)
(* assigned lies in exactly one tier.                                      *)
C10_IntegerContiguous ==
    /\ DOMAIN fixCostFunctions = {1, 2, 3}
    /\ \A f \in DOMAIN fixCostFunctions :
          LET t == fixCostFunctions[f]
          IN  /\ t[1].lower_bound = 0
              /\ \A i \in 1 .. Len(t) : t[i].lower_bound <= t[i].upper_bound
              /\ \A i \in 2 .. Len(t) :
                    t[i].lower_bound = t[i - 1].upper_bound + 1
              /\ t[Len(t)].upper_bound = Family1[Len(Family1)].upper_bound
              /\ \A v \in ZGrid :
                    Cardinality({i \in 1 .. Len(t) : InTier(v, t[i])}) = 1

C10_Witness ==
    /\ pc = "totals" /\ status = "Optimal"
    /\ \E w \in W :
          /\ Throughput(x, w) = tier(0).upper_bound + 1
          /\ y[w][1] = 1
          /\ InTier(z[w][1], tier(1))
====
